---- MODULE Spec2Model ----
(***************************************************************************)
(* State-machine model of the doctor-log backend.                          *)
(*                                                                         *)
(* The repository holds two generations of the same HTTP API:              *)
(*   app = "server" : backend/server.py (monolith, handlers talk to Mongo) *)
(*   app = "main"   : backend/main.py + backend/app/** (routers/services)  *)
(* Every handler is modelled once, with the places where the two differ    *)
(* made explicit by a test on app.                                         *)
(*                                                                         *)
(* Conventions                                                             *)
(*   - Optional[T] is a set with at most one element: None = {}.           *)
(*   - Text that the code formats or searches (display ids, names) is a    *)
(*     sequence of one-character strings; opaque text is a string.         *)
(*   - Mongo collections are sets of documents (records).                  *)
(*   - A handler that awaits the store more than once is split at the      *)
(*     await: the request then sits in calls between the two steps.        *)
(***************************************************************************)
EXTENDS Integers, Sequences, FiniteSets, TLC

VARIABLES
    app,        \* which application serves the requests
    now,        \* datetime.utcnow(), in ticks
    users,      \* db.users / UserCollection
    patients,   \* db.patients / PatientCollection
    counters,   \* db.counters / CounterCollection: "patient_id_<user>" -> sequence
    nextUuid,   \* uuid4() source: index of the next fresh value
    calls,      \* requests suspended between two awaits
    issued,     \* log of what get_next_patient_id returned: <<user, display id>>
    writes,     \* requests that changed the store so far
    tokens,     \* the tokens the server has issued: what clients hold
    history,    \* the requests that changed a patient, as they were answered
    documents,  \* DocumentCollection, in insertion order
    resp        \* the last HTTP response sent

vars == <<app, now, users, patients, counters, nextUuid, calls, issued, writes,
          tokens, history, documents, resp>>

(***************************************************************************)
(* Bounds of the model.                                                    *)
(***************************************************************************)
\* number of request slots: requests that can be in flight together
MaxCalls == 3
\* ticks the clock can advance
MaxTime == 1
\* create-patient calls over a run
MaxCreates == 3
\* requests over a run that change the store (create, update, delete, note)
MaxWrites == 1
\* the same, in the runs that present every kind of credential
MaxGateWrites == 1
\* register and upgrade calls over a run
MaxRegs == 3
\* uuid4() values drawn over a run with restarts
MaxUuid == 24
\* requests over a run that change a stored patient (update, delete, note)
MaxRecordWrites == 3
\* document records created over a run
MaxDocs == 2
\* requests over a run that change what the statistics count
MaxStatsWrites == 1
\* update and delete calls over a run of racing updates
MaxRaceWrites == 3

CallIds == 1..MaxCalls

\* identities carried by bearer tokens: the two demo users of init_dummy_data
UserIds == {"demo_user_1", "demo_user_2"}

None == {}

Some(v) == {v}

\* the value of a non-empty Optional
The(o) == CHOOSE v \in o : TRUE

(***************************************************************************)
(* uuid.uuid4(): a value never produced before.                            *)
(***************************************************************************)
Uuid(n) == "uuid-" \o ToString(n)

(***************************************************************************)
(* f"PAT{sequence:03d}": zero-padded to at least three digits.              *)
(***************************************************************************)
DigitChar(d) ==
    CASE d = 0 -> "0" [] d = 1 -> "1" [] d = 2 -> "2" [] d = 3 -> "3"
      [] d = 4 -> "4" [] d = 5 -> "5" [] d = 6 -> "6" [] d = 7 -> "7"
      [] d = 8 -> "8" [] d = 9 -> "9"

RECURSIVE Digits(_)
Digits(n) == IF n < 10 THEN <<DigitChar(n)>>
             ELSE Digits(n \div 10) \o <<DigitChar(n % 10)>>

RECURSIVE ZeroPad(_, _)
ZeroPad(s, width) == IF Len(s) >= width THEN s ELSE ZeroPad(<<"0">> \o s, width)

FormatPatientId(n) == <<"P", "A", "T">> \o ZeroPad(Digits(n), 3)

(***************************************************************************)
(* Passwords: pwd_context.hash / pwd_context.verify (bcrypt).  A hash is   *)
(* not the password; verify accepts exactly the password it was made of.   *)
(***************************************************************************)
hash_password(password) == <<"bcrypt", password>>

verify_password(plain_password, hashed_password) ==
    hashed_password = hash_password(plain_password)

(***************************************************************************)
(* Bearer credentials.  A request carries no Authorization header, text    *)
(* that is not a JWT, or a JWT with a subject claim (possibly absent), an  *)
(* expiry, possibly a plan claim, and a signature that is or is not made   *)
(* with SECRET_KEY.  use is not part of the token: it records which of     *)
(* create_access_token and create_refresh_token built it ("" for a token   *)
(* the run did not build), for the statements below.                       *)
(***************************************************************************)
NoCredentials ==
    [kind |-> "none", sub |-> None, exp |-> 0, signed |-> FALSE, plan |-> None,
     use |-> ""]

Garbage ==
    [kind |-> "garbage", sub |-> None, exp |-> 0, signed |-> FALSE, plan |-> None,
     use |-> ""]

Jwt(sub, exp, signed) ==
    [kind |-> "jwt", sub |-> sub, exp |-> exp, signed |-> signed, plan |-> None,
     use |-> ""]

\* the credentials a client may present
Credentials ==
    {NoCredentials, Garbage}
      \cup {Jwt(s, e, g) : s \in {None} \cup {Some(u) : u \in UserIds},
                           e \in {1, MaxTime + 1}, g \in BOOLEAN}

\* the decode with verify_exp switched off
jwt_decode_no_exp(token, t) ==
    IF token.kind # "jwt" THEN [error |-> "DecodeError", sub |-> None]
    ELSE IF ~token.signed THEN [error |-> "InvalidSignatureError", sub |-> None]
    ELSE [error |-> "", sub |-> token.sub]

\* jwt.decode(token, SECRET_KEY, algorithms=[ALGORITHM]) at time t:
\* the structure, then the signature, then the exp claim
jwt_decode(token, t) ==
    IF token.kind # "jwt" THEN [error |-> "DecodeError", sub |-> None]
    ELSE IF ~token.signed THEN [error |-> "InvalidSignatureError", sub |-> None]
    ELSE IF token.exp <= t THEN [error |-> "ExpiredSignatureError", sub |-> None]
    ELSE [error |-> "", sub |-> token.sub]

\* the exception classes of PyJWT: all derive from jwt.PyJWTError
IsPyJWTError(e) == e \in {"DecodeError", "InvalidSignatureError", "ExpiredSignatureError"}

Grant(user_id) == [ok |-> TRUE, user_id |-> user_id, status |-> 200, detail |-> ""]

Deny(status, detail) == [ok |-> FALSE, user_id |-> "", status |-> status, detail |-> detail]

\* HTTPBearer() with auto_error: no usable Authorization header.  FastAPI
\* answers 403 "Not authenticated" (401 in later releases).
HTTPBearer == {Deny(403, "Not authenticated"), Deny(401, "Not authenticated")}

\* what the body of the try block of get_current_user raises ("" = returns)
GateRaises(cred, t) ==
    LET d == jwt_decode(cred, t)
    IN  IF d.error # "" THEN d.error
        ELSE IF d.sub = None THEN "HTTPException" ELSE ""

\* app/core/security.py get_current_user: the except clauses in order.
\* HTTPException is an Exception, so the 401 raised for a missing subject
\* inside the try block is caught by the last clause.
security_get_current_user(cred, t) ==
    IF cred.kind = "none" THEN HTTPBearer
    ELSE LET e == GateRaises(cred, t)
         IN  IF e = "" THEN {Grant(The(cred.sub))}
             ELSE IF e = "ExpiredSignatureError"
                  THEN {Deny(401, "Token has expired")}
             ELSE IF IsPyJWTError(e)
                  THEN {Deny(401, "Could not validate credentials")}
             ELSE {Deny(500, "An unexpected error occurred during authentication")}

\* server.py get_current_user: one except clause, for jwt.PyJWTError; the
\* HTTPException for a missing subject propagates.
server_get_current_user(cred, t) ==
    IF cred.kind = "none" THEN HTTPBearer
    ELSE LET e == GateRaises(cred, t)
         IN  IF e = "" THEN {Grant(The(cred.sub))}
             ELSE IF IsPyJWTError(e)
                  THEN {Deny(401, "Invalid authentication credentials")}
             ELSE {Deny(401, "Invalid authentication credentials")}

\* Depends(get_current_user): the possible outcomes for a credential
get_current_user(cred) ==
    IF app = "server" THEN server_get_current_user(cred, now)
    ELSE security_get_current_user(cred, now)

(***************************************************************************)
(* HTTP responses.  One record shape for every endpoint; the fields an     *)
(* endpoint does not send stay empty.  caller, cred, target, asked, query, *)
(* presented and seen are not sent: they record what the request presented *)
(* (its credential, the id in its path, its query parameters, the token in *)
(* its body) and what its queries found in the store, for the statements   *)
(* below.                                                                  *)
(***************************************************************************)
\* how the presented credential is classified (independent of the gate)
CredClass(cred) ==
    IF cred.kind = "none" THEN "missing"
    ELSE IF cred.kind = "garbage" THEN "malformed"
    ELSE IF ~cred.signed THEN "forged"
    ELSE IF cred.exp <= now THEN "expired"
    ELSE IF cred.sub = None THEN "nosub"
    ELSE "valid"

Response(op, status, detail) ==
    [op |-> op, status |-> status, detail |-> detail,
     patient |-> None, patients |-> <<>>, notes |-> <<>>, note |-> None,
     user |-> None, access_token |-> None, refresh_token |-> None,
     stats |-> None, document |-> None, documents |-> <<>>,
     caller |-> "", cred |-> "", target |-> "", asked |-> "", query |-> <<>>,
     presented |-> None, seen |-> <<>>]

NoResponse == Response("", 0, "")

\* the response of a protected endpoint whose dependency raised
Refused(op, cred, g) ==
    [Response(op, g.status, g.detail)
       EXCEPT !.cred = CredClass(cred), !.presented = Some(cred)]

\* a response of a protected endpoint that ran for caller u
Answer(op, cred, u, status, detail) ==
    [Response(op, status, detail)
       EXCEPT !.cred = CredClass(cred), !.caller = u, !.presented = Some(cred)]

(***************************************************************************)
(* Documents.                                                              *)
(*                                                                         *)
(* A patient document keeps the fields the code reads or filters on: id,   *)
(* patient_id (display id), user_id (owner), name, phone, email, group,    *)
(* is_favorite, notes, created_at, updated_at.  The free-text fields the   *)
(* code only copies (address, location, initial_complaint,                 *)
(* initial_diagnosis, photo) travel exactly like name and are left out.    *)
(* Text values of the seed data are cut to their first characters.         *)
(***************************************************************************)
Days(n) == n * 24

Hours(n) == n

Note(id, content, timestamp, visit_type, created_by) ==
    [id |-> id, content |-> content, timestamp |-> timestamp,
     visit_type |-> visit_type, created_by |-> created_by]

\* the demo users of init_dummy_data
DemoUsers(t) ==
    << [id |-> "demo_user_1", email |-> "dr.sarah@clinic.com",
        password_hash |-> hash_password("password123"),
        plan |-> "pro", subscription_status |-> "active",
        subscription_end_date |-> t + Days(365),
        created_at |-> t, updated_at |-> t],
       [id |-> "demo_user_2", email |-> "dr.mike@physio.com",
        password_hash |-> hash_password("password123"),
        plan |-> "regular", subscription_status |-> "active",
        subscription_end_date |-> t + Days(30),
        created_at |-> t, updated_at |-> t] >>

\* the demo patients of init_dummy_data, all of demo_user_1; u is the index
\* of the first uuid4() drawn for them (one per patient, one per note)
DummyPatients(t, u) ==
    << [id |-> Uuid(u), patient_id |-> <<"P", "A", "T", "0", "0", "1">>,
        user_id |-> "demo_user_1", name |-> <<"J", "o", "h", "n">>,
        phone |-> <<"+", "1", "5">>, email |-> <<"j", "o", "@", "e">>,
        group |-> "cardiology", is_favorite |-> TRUE,
        notes |-> << Note(Uuid(u + 1), "Initial consultation", t - Days(5),
                          "initial", "Dr. Sarah Johnson") >>,
        created_at |-> t - Days(5), updated_at |-> t],
       [id |-> Uuid(u + 2), patient_id |-> <<"P", "A", "T", "0", "0", "2">>,
        user_id |-> "demo_user_1", name |-> <<"E", "m", "m", "a">>,
        phone |-> <<"+", "1", "5">>, email |-> <<"e", "m", "@", "e">>,
        group |-> "cardiology", is_favorite |-> FALSE,
        notes |-> << Note(Uuid(u + 3), "Blood pressure readings", t - Days(2),
                          "follow-up", "Dr. Sarah Johnson") >>,
        created_at |-> t - Days(10), updated_at |-> t - Days(2)],
       [id |-> Uuid(u + 4), patient_id |-> <<"P", "A", "T", "0", "0", "3">>,
        user_id |-> "demo_user_1", name |-> <<"R", "o", "b">>,
        phone |-> <<"+", "1", "5">>, email |-> <<"r", "o", "@", "e">>,
        group |-> "endocrinology", is_favorite |-> FALSE,
        notes |-> << Note(Uuid(u + 5), "Home visit completed", t - Days(1),
                          "home_visit", "Dr. Sarah Johnson") >>,
        created_at |-> t - Days(7), updated_at |-> t - Days(1)],
       [id |-> Uuid(u + 6), patient_id |-> <<"P", "A", "T", "0", "0", "4">>,
        user_id |-> "demo_user_1", name |-> <<"L", "i", "s", "a">>,
        phone |-> <<"+", "1", "5">>, email |-> <<"l", "i", "@", "e">>,
        group |-> "obstetric_cardiology", is_favorite |-> TRUE,
        notes |-> << Note(Uuid(u + 7), "20-week checkup completed", t - Hours(6),
                          "routine", "Dr. Sarah Johnson") >>,
        created_at |-> t - Days(3), updated_at |-> t - Hours(6)],
       [id |-> Uuid(u + 8), patient_id |-> <<"P", "A", "T", "0", "0", "5">>,
        user_id |-> "demo_user_1", name |-> <<"D", "a", "v", "e">>,
        phone |-> <<"+", "1", "5">>, email |-> <<"d", "a", "@", "e">>,
        group |-> "post_surgical", is_favorite |-> FALSE,
        notes |-> << Note(Uuid(u + 9), "6-week post-op visit", t - Hours(2),
                          "post_surgical", "Dr. Sarah Johnson") >>,
        created_at |-> t - Days(1), updated_at |-> t - Hours(2)] >>

\* for user_data in demo_users: insert unless a user has that email
RECURSIVE InsertDemoUsers(_, _, _)
InsertDemoUsers(us, seed, i) ==
    IF i > Len(seed) THEN us
    ELSE InsertDemoUsers(
             IF \E x \in us : x.email = seed[i].email THEN us ELSE us \cup {seed[i]},
             seed, i + 1)

\* for patient_data in dummy_patients: insert unless the owner already has
\* a patient with that display id
RECURSIVE InsertDummyPatients(_, _, _)
InsertDummyPatients(ps, seed, i) ==
    IF i > Len(seed) THEN ps
    ELSE InsertDummyPatients(
             IF \E x \in ps : x.patient_id = seed[i].patient_id
                              /\ x.user_id = seed[i].user_id
             THEN ps ELSE ps \cup {seed[i]},
             seed, i + 1)

\* the value the startup code writes into demo_user_1's counter
DummySequence == 5

\* db.counters.update_one({"_id": "patient_id_demo_user_1"},
\*                        {"$set": {"sequence": 5}}, upsert=True)
SetUpCounters(cs) ==
    [k \in DOMAIN cs \cup {"demo_user_1"} |->
        IF k = "demo_user_1" THEN DummySequence ELSE cs[k]]

\* the uuid4() values init_dummy_data draws: one per demo patient and note
DummyUuids == 10

(***************************************************************************)
(* The store right after startup on an empty database.                     *)
(***************************************************************************)
NoCall == [pc |-> "idle", op |-> "", user_id |-> "", patient_id |-> <<>>,
           target |-> "", data |-> None, cred |-> "", email |-> "", stamp |-> 0]

InitStore ==
    /\ now = 0
    /\ users = InsertDemoUsers({}, DemoUsers(0), 1)
    /\ patients = InsertDummyPatients({}, DummyPatients(0, 1), 1)
    /\ counters = SetUpCounters([k \in {} |-> 0])
    /\ nextUuid = 1 + DummyUuids
    /\ calls = [c \in CallIds |-> NoCall]
    /\ issued = <<>>
    /\ writes = 0
    /\ tokens = {}
    /\ history = {}
    /\ documents = <<>>
    /\ resp = NoResponse

Init ==
    /\ app \in {"server", "main"}
    /\ InitStore

(***************************************************************************)
(* Request inputs.                                                         *)
(***************************************************************************)
\* PatientCreate bodies
CreateInputs ==
    { [name |-> <<"A", "n", "n">>, phone |-> <<>>, email |-> <<>>,
       group |-> "general", is_favorite |-> FALSE],
      [name |-> <<"B", "o", "b">>, phone |-> <<"+", "4">>, email |-> <<"b", "@", "x">>,
       group |-> "cardiology", is_favorite |-> TRUE] }

NoUpdate == [name |-> None, phone |-> None, email |-> None,
             group |-> None, is_favorite |-> None]

\* PatientUpdate bodies: every field is Optional, None when not supplied
UpdateInputs ==
    { NoUpdate,
      [NoUpdate EXCEPT !.name = Some(<<"Z", "o", "e">>)],
      [NoUpdate EXCEPT !.group = Some("vip"), !.is_favorite = Some(TRUE)],
      [NoUpdate EXCEPT !.is_favorite = Some(FALSE)] }

\* NoteCreate bodies
NoteInputs ==
    { [content |-> "checkup", visit_type |-> "regular"],
      [content |-> "urgent", visit_type |-> "emergency"] }

\* opaque ids a client may put in the path: a seeded patient of
\* demo_user_1, every uuid drawn since startup, and one that was never drawn
PatientIdInputs ==
    {Uuid(1), "no-such-id"} \cup {Uuid(k) : k \in (1 + DummyUuids)..(nextUuid - 1)}

(***************************************************************************)
(* Queries of the patients collection.                                     *)
(***************************************************************************)
\* the lookup without the owner in its filter
MatchById(p, patient_id, user_id) == p.id = patient_id

\* the filter {"id": patient_id, "user_id": user_id}
MatchOwned(p, patient_id, user_id) == p.id = patient_id /\ p.user_id = user_id

\* PatientCollection.find_one({"id": ..., "user_id": ...}): Optional document
find_one(patient_id, user_id) ==
    LET hits == {p \in patients : MatchOwned(p, patient_id, user_id)}
    IN  IF hits = {} THEN None ELSE Some(CHOOSE p \in hits : TRUE)

\* whose patient an id names, seen from caller u
TargetKind(patient_id, u) ==
    IF \E p \in patients : p.id = patient_id /\ p.user_id = u THEN "owned"
    ELSE IF \E p \in patients : p.id = patient_id THEN "foreign"
    ELSE "absent"

UpperCase == <<"A", "B", "C", "D", "E", "F", "G", "H", "I", "J", "K", "L", "M",
               "N", "O", "P", "Q", "R", "S", "T", "U", "V", "W", "X", "Y", "Z">>

LowerCase == <<"a", "b", "c", "d", "e", "f", "g", "h", "i", "j", "k", "l", "m",
               "n", "o", "p", "q", "r", "s", "t", "u", "v", "w", "x", "y", "z">>

LowerChar(ch) ==
    IF \E i \in 1..Len(UpperCase) : UpperCase[i] = ch
    THEN LowerCase[CHOOSE i \in 1..Len(UpperCase) : UpperCase[i] = ch]
    ELSE ch

\* the match without "$options": "i": letter case counts
RegexMatch(pattern, text) ==
    \E i \in 1..(Len(text) - Len(pattern) + 1) :
        \A j \in 1..Len(pattern) : text[i + j - 1] = pattern[j]

\* {"$regex": pattern, "$options": "i"} for a pattern of literal characters:
\* the pattern occurs somewhere in the text, letter case ignored
RegexMatchI(pattern, text) ==
    \E i \in 1..(Len(text) - Len(pattern) + 1) :
        \A j \in 1..Len(pattern) : LowerChar(text[i + j - 1]) = LowerChar(pattern[j])

\* the query document built by get_patients_by_user_id / get_patients
ListQuery(p, user_id, search, group, favorites_only) ==
    /\ p.user_id = user_id
    /\ (search # None /\ The(search) # <<>>) =>
           \/ RegexMatchI(The(search), p.name)
           \/ RegexMatchI(The(search), p.patient_id)
           \/ RegexMatchI(The(search), p.phone)
           \/ RegexMatchI(The(search), p.email)
    /\ (group # None /\ The(group) # "") => p.group = The(group)
    /\ favorites_only => p.is_favorite

\* .sort("created_at", -1): every order that is non-increasing in created_at
\* (the order among equal keys is not specified by the store)
RECURSIVE SortCreatedDesc(_)
SortCreatedDesc(S) ==
    IF S = {} THEN {<<>>}
    ELSE LET newest == {p \in S : \A q \in S : q.created_at <= p.created_at}
         IN  UNION { { <<p>> \o rest : rest \in SortCreatedDesc(S \ {p}) } : p \in newest }

\* .to_list(1000)
ListLimit == 1000

to_list(s, n) == IF Len(s) <= n THEN s ELSE SubSeq(s, 1, n)

\* sorted(notes, key=timestamp, reverse=True): stable, so notes with equal
\* timestamps keep their stored order
RECURSIVE InsertByTimestampDesc(_, _)
InsertByTimestampDesc(s, n) ==
    IF s = <<>> THEN <<n>>
    ELSE IF Head(s).timestamp >= n.timestamp
         THEN <<Head(s)>> \o InsertByTimestampDesc(Tail(s), n)
         ELSE <<n>> \o s

\* the notes in the order the document stores them
SortNotesStored(s) == s

RECURSIVE SortNotesDesc(_)
SortNotesDesc(s) ==
    IF s = <<>> THEN <<>>
    ELSE InsertByTimestampDesc(SortNotesDesc(SubSeq(s, 1, Len(s) - 1)), s[Len(s)])

\* an entry of history: the request op of user_id changed patient id
Event(op, id, user_id, data) == [op |-> op, id |-> id, user_id |-> user_id, data |-> data]

(***************************************************************************)
(* Protected endpoints: Depends(get_current_user) runs first; when it      *)
(* raises, the handler body never runs and the error is the response.      *)
(***************************************************************************)
Protected(op, cred, Body(_)) ==
    \E g \in get_current_user(cred) :
        IF g.ok THEN Body(g.user_id)
        ELSE /\ resp' = Refused(op, cred, g)
             /\ UNCHANGED <<documents, app, history, tokens, now, users, patients, counters, nextUuid,
                            calls, issued, writes>>

\* status of a successful POST: 201 on the routers of app/api, 200 in server.py
Created == IF app = "main" THEN 201 ELSE 200

\* a not-found answer that shows the owner check ran after the lookup
NotFoundLeaky(op, cred, u, patient_id) ==
    [Answer(op, cred, u,
            IF TargetKind(patient_id, u) = "foreign" THEN 403 ELSE 404,
            IF TargetKind(patient_id, u) = "foreign"
            THEN "Not enough permissions" ELSE "Patient not found")
        EXCEPT !.target = TargetKind(patient_id, u), !.asked = patient_id]

\* HTTPException(status_code=404, detail="Patient not found").  The
\* handlers of server.py raise it inside try and re-raise it from their
\* except clause when its text holds the detail, which str() of Starlette's
\* HTTPException does.
NotFound(op, cred, u, patient_id) ==
    [Answer(op, cred, u, 404, "Patient not found")
        EXCEPT !.target = TargetKind(patient_id, u), !.asked = patient_id]

\* a new request takes the first free slot
FreeSlot(c) ==
    /\ calls[c].pc = "idle"
    /\ \A d \in CallIds : d < c => calls[d].pc # "idle"

\* the response has left the server
Respond ==
    /\ resp # NoResponse
    /\ resp' = NoResponse
    /\ UNCHANGED <<documents, app, history, tokens, now, users, patients, counters, nextUuid, calls, issued,
                   writes>>

(***************************************************************************)
(* The clock.                                                              *)
(***************************************************************************)
Tick ==
    /\ now < MaxTime
    /\ now' = now + 1
    /\ UNCHANGED <<documents, app, history, tokens, users, patients, counters, nextUuid, calls, issued,
                   writes, resp>>

(***************************************************************************)
(* POST /patients.  get_next_patient_id is one find_one_and_update with    *)
(* $inc and upsert; the insert is a second await.                          *)
(***************************************************************************)
\* a next number derived from the patients the user has now
find_one_and_update_count(cs, user_id) ==
    [k \in DOMAIN cs \cup {user_id} |->
        IF k = user_id
        THEN Cardinality({p \in patients : p.user_id = user_id}) + 1
        ELSE cs[k]]

\* CounterCollection.find_one_and_update({"_id": key}, {"$inc": {"sequence": 1}},
\*     upsert=True, return_document=True): the counters after the call
find_one_and_update(cs, user_id) ==
    [k \in DOMAIN cs \cup {user_id} |->
        IF k = user_id
        THEN (IF k \in DOMAIN cs THEN cs[k] + 1 ELSE 1)
        ELSE cs[k]]

get_next_patient_id(cs, user_id) == FormatPatientId(find_one_and_update(cs, user_id)[user_id])

CreateAllocate(c, cred, data) ==
    /\ FreeSlot(c)
    /\ Protected("create_patient", cred, LAMBDA u :
          /\ counters' = find_one_and_update(counters, u)
          /\ issued' = Append(issued, <<u, get_next_patient_id(counters, u)>>)
          /\ calls' = [calls EXCEPT ![c] =
                 [NoCall EXCEPT !.pc = "insert", !.op = "create_patient",
                                !.user_id = u, !.data = Some(data),
                                !.patient_id = get_next_patient_id(counters, u),
                                !.cred = CredClass(cred)]]
          /\ writes' = writes + 1
          /\ UNCHANGED <<documents, app, history, tokens, now, users, patients, nextUuid, resp>>)

\* a document built from the model's defaults where the body is not copied
NewPatientDefaults(call, id, t) ==
    LET d == The(call.data)
    IN  [id |-> id, patient_id |-> call.patient_id, user_id |-> call.user_id,
         name |-> d.name, phone |-> d.phone, email |-> d.email,
         group |-> "general", is_favorite |-> FALSE,
         notes |-> <<>>, created_at |-> t, updated_at |-> t]

\* the document create_patient builds and inserts
NewPatient(call, id, t) ==
    LET d == The(call.data)
    IN  [id |-> id, patient_id |-> call.patient_id, user_id |-> call.user_id,
         name |-> d.name, phone |-> d.phone, email |-> d.email,
         group |-> d.group, is_favorite |-> d.is_favorite,
         notes |-> <<>>, created_at |-> t, updated_at |-> t]

CreateInsert(c) ==
    /\ calls[c].pc = "insert"
    /\ calls[c].op = "create_patient"
    /\ LET doc == NewPatient(calls[c], Uuid(nextUuid), now)
       IN  /\ patients' = patients \cup {doc}
           /\ resp' = [Response("create_patient", Created, "")
                          EXCEPT !.patient = Some(doc), !.caller = calls[c].user_id,
                                 !.cred = calls[c].cred]
           /\ history' = history \cup
                  {Event("create_patient", doc.id, calls[c].user_id,
                         Some([payload |-> The(calls[c].data),
                               patient_id |-> calls[c].patient_id]))}
    /\ nextUuid' = nextUuid + 1
    /\ calls' = [calls EXCEPT ![c] = NoCall]
    /\ UNCHANGED <<documents, app, tokens, now, users, counters, issued, writes>>

(***************************************************************************)
(* GET /patients and GET /patients/{id}.                                   *)
(***************************************************************************)
GetPatients(cred, search, group, favorites_only) ==
    Protected("get_patients", cred, LAMBDA u :
        /\ \E order \in SortCreatedDesc(
                 {p \in patients : ListQuery(p, u, search, group, favorites_only)}) :
               resp' = [Answer("get_patients", cred, u, 200, "")
                          EXCEPT !.patients = to_list(order, ListLimit),
                                 !.query = <<search, group, favorites_only>>]
        /\ UNCHANGED <<documents, app, history, tokens, now, users, patients, counters, nextUuid, calls,
                       issued, writes>>)

GetPatient(cred, patient_id) ==
    Protected("get_patient", cred, LAMBDA u :
        /\ resp' = IF find_one(patient_id, u) = None
                   THEN NotFound("get_patient", cred, u, patient_id)
                   ELSE [Answer("get_patient", cred, u, 200, "")
                           EXCEPT !.patient = find_one(patient_id, u),
                                  !.target = TargetKind(patient_id, u),
                                  !.asked = patient_id]
        /\ UNCHANGED <<documents, app, history, tokens, now, users, patients, counters, nextUuid, calls,
                       issued, writes>>)

(***************************************************************************)
(* PUT /patients/{id}: update_one, then a second query for the response.   *)
(* updated_at is read from the clock before the await on update_one.       *)
(***************************************************************************)
\* the readings of datetime.utcnow() a handler can have taken when the
\* store applies its write: the handler stamps first and awaits the store
\* after, and the store applies the writes of requests in flight together
\* in any order
StampTimes == 0..now

\* {k: v for k, v in patient_data.dict().items() if v is not None}
NoFields(payload) ==
    /\ payload.name = None /\ payload.phone = None /\ payload.email = None
    /\ payload.group = None /\ payload.is_favorite = None

\* a $set of the whole payload, the fields it left out included
ApplySetAll(doc, payload, t) ==
    [doc EXCEPT !.name = IF payload.name = None THEN <<>> ELSE The(payload.name),
                !.phone = IF payload.phone = None THEN <<>> ELSE The(payload.phone),
                !.email = IF payload.email = None THEN <<>> ELSE The(payload.email),
                !.group = IF payload.group = None THEN "general" ELSE The(payload.group),
                !.is_favorite = IF payload.is_favorite = None THEN FALSE
                                ELSE The(payload.is_favorite),
                !.updated_at = t]

\* {"$set": update_data} with update_data["updated_at"] = t
ApplySet(doc, payload, t) ==
    [doc EXCEPT !.name = IF payload.name = None THEN @ ELSE The(payload.name),
                !.phone = IF payload.phone = None THEN @ ELSE The(payload.phone),
                !.email = IF payload.email = None THEN @ ELSE The(payload.email),
                !.group = IF payload.group = None THEN @ ELSE The(payload.group),
                !.is_favorite = IF payload.is_favorite = None THEN @
                                ELSE The(payload.is_favorite),
                !.updated_at = t]

UpdateWrite(c, cred, patient_id, payload) ==
    /\ FreeSlot(c)
    /\ Protected("update_patient", cred, LAMBDA u :
          LET found == find_one(patient_id, u)
          IN  \* patient_service.update_patient returns without writing when no
              \* field is supplied; server.py update_patient always writes
              IF app = "main" /\ NoFields(payload)
              THEN /\ resp' = IF found = None
                              THEN NotFound("update_patient", cred, u, patient_id)
                              ELSE [Answer("update_patient", cred, u, 200, "")
                                      EXCEPT !.patient = found,
                                             !.target = TargetKind(patient_id, u),
                                             !.asked = patient_id]
                   /\ UNCHANGED <<documents, app, history, tokens, now, users, patients, counters, nextUuid,
                                  calls, issued, writes>>
              ELSE IF found = None
              THEN /\ resp' = NotFound("update_patient", cred, u, patient_id)
                   /\ UNCHANGED <<documents, app, history, tokens, now, users, patients, counters, nextUuid,
                                  calls, issued, writes>>
              ELSE /\ \E t \in StampTimes :
                          /\ patients' = (patients \ found)
                                            \cup {ApplySet(The(found), payload, t)}
                          /\ calls' = [calls EXCEPT ![c] =
                                 [NoCall EXCEPT !.pc = "reread", !.op = "update_patient",
                                                !.user_id = u, !.target = patient_id,
                                                !.data = Some(payload),
                                                !.cred = CredClass(cred),
                                                !.stamp = t]]
                   /\ writes' = writes + 1
                   /\ history' = history \cup {Event("update_patient", patient_id, u, None)}
                   /\ UNCHANGED <<documents, app, tokens, now, users, counters, nextUuid, issued, resp>>)

\* the second query: app/api/patients.py answers 404 when the patient is
\* gone by then, server.py answers success with a null patient.  target
\* records what the id named when the handler's filter ran: the write matched.
UpdateReread(c) ==
    /\ calls[c].pc = "reread"
    /\ calls[c].op = "update_patient"
    /\ LET u == calls[c].user_id
           found == find_one(calls[c].target, u)
       IN  resp' = IF found = None /\ app = "main"
                   THEN [Response("update_patient", 404, "Patient not found")
                           EXCEPT !.caller = u, !.cred = calls[c].cred,
                                  !.target = "owned", !.asked = calls[c].target]
                   ELSE [Response("update_patient", 200, "")
                           EXCEPT !.caller = u, !.cred = calls[c].cred,
                                  !.patient = found,
                                  !.target = "owned", !.asked = calls[c].target]
    /\ calls' = [calls EXCEPT ![c] = NoCall]
    /\ UNCHANGED <<documents, app, history, tokens, now, users, patients, counters, nextUuid, issued, writes>>

(***************************************************************************)
(* DELETE /patients/{id}.                                                  *)
(***************************************************************************)
\* a delete that reports a match and removes nothing
delete_one_kept(ps, found) == ps

\* PatientCollection.delete_one(filter): the collection without the match
delete_one(ps, found) == ps \ found

DeletePatient(cred, patient_id) ==
    Protected("delete_patient", cred, LAMBDA u :
        LET found == find_one(patient_id, u)
        IN  IF found = None
            THEN /\ resp' = NotFound("delete_patient", cred, u, patient_id)
                 /\ UNCHANGED <<documents, app, history, tokens, now, users, patients, counters, nextUuid,
                                calls, issued, writes>>
            ELSE /\ patients' = delete_one(patients, found)
                 /\ writes' = writes + 1
                 /\ resp' = [Answer("delete_patient", cred, u, 200,
                                    "Patient deleted successfully")
                               EXCEPT !.target = TargetKind(patient_id, u),
                                      !.asked = patient_id]
                 /\ history' = history \cup {Event("delete_patient", patient_id, u, None)}
                 /\ UNCHANGED <<documents, app, tokens, now, users, counters, nextUuid, calls, issued>>)

(***************************************************************************)
(* POST /patients/{id}/notes and GET /patients/{id}/notes.  The note takes *)
(* its timestamp when it is built, updated_at when the update document is  *)
(* built, both before the await on the store.                              *)
(***************************************************************************)
\* PatientNote(**note_data.dict()): id and timestamp by default_factory
PatientNote(note_data, id, t) ==
    Note(id, note_data.content, t, note_data.visit_type, "practitioner")

\* a $set of the notes array to the new note alone
ApplyPushReplace(doc, note, t) ==
    [doc EXCEPT !.notes = <<note>>, !.updated_at = t]

\* {"$push": {"notes": note}, "$set": {"updated_at": t}}
ApplyPush(doc, note, t) ==
    [doc EXCEPT !.notes = Append(@, note), !.updated_at = t]

AddNote(cred, patient_id, note_data) ==
    Protected("add_patient_note", cred, LAMBDA u :
        LET found == find_one(patient_id, u)
        IN  IF found = None
            THEN /\ resp' = NotFound("add_patient_note", cred, u, patient_id)
                 /\ UNCHANGED <<documents, app, history, tokens, now, users, patients, counters, nextUuid,
                                calls, issued, writes>>
            ELSE \E t \in StampTimes, t2 \in StampTimes :
                 LET note == PatientNote(note_data, Uuid(nextUuid), t)
                 IN  /\ t <= t2
                     /\ patients' = (patients \ found)
                                        \cup {ApplyPush(The(found), note, t2)}
                     /\ nextUuid' = nextUuid + 1
                     /\ writes' = writes + 1
                     /\ resp' = [Answer("add_patient_note", cred, u, Created, "")
                                   EXCEPT !.note = Some(note),
                                          !.target = TargetKind(patient_id, u),
                                          !.asked = patient_id]
                     /\ history' = history \cup
                            {Event("add_patient_note", patient_id, u, Some(note))}
                     /\ UNCHANGED <<documents, app, tokens, now, users, counters, calls, issued>>)

GetPatientNotes(cred, patient_id) ==
    Protected("get_patient_notes", cred, LAMBDA u :
        LET found == find_one(patient_id, u)
        IN  /\ resp' = IF found = None
                       THEN NotFound("get_patient_notes", cred, u, patient_id)
                       ELSE [Answer("get_patient_notes", cred, u, 200, "")
                               EXCEPT !.notes = SortNotesDesc(The(found).notes),
                                      !.target = TargetKind(patient_id, u),
                                      !.asked = patient_id]
            /\ UNCHANGED <<documents, app, history, tokens, now, users, patients, counters, nextUuid, calls,
                           issued, writes>>)

(***************************************************************************)
(* GET /stats: two count_documents and one aggregate, three awaits.        *)
(***************************************************************************)
\* "group": null in a PatientCreate body and in the document stored for it
NoGroup == "<null>"

\* PatientCreate bodies of the statistics runs: with a group, and without
StatsCreateInputs ==
    { [name |-> <<"A", "n", "n">>, phone |-> <<>>, email |-> <<>>,
       group |-> "general", is_favorite |-> FALSE],
      [name |-> <<"N", "e", "d">>, phone |-> <<>>, email |-> <<>>,
       group |-> NoGroup, is_favorite |-> TRUE] }

\* count_documents(filter), for the documents the filter matches
count_documents(matched) == Cardinality(matched)

\* the $match stage without the user in it
StatsMatchAny(p, user_id) ==
    app = "main" => p.group # NoGroup

\* the $match stage: {"user_id": u} in server.py,
\* {"user_id": u, "group": {"$ne": None}} in patient_service.py
StatsMatch(p, user_id) ==
    /\ p.user_id = user_id
    /\ app = "main" => p.group # NoGroup

\* {"$group": {"_id": "$group", "count": {"$sum": 1}}} over the matched
GroupStage(matched) ==
    { [_id |-> g, count |-> Cardinality({p \in matched : p.group = g})] :
          g \in {p.group : p \in matched} }

\* {"$sort": {"count": -1}}: every order that is non-increasing in count
RECURSIVE SortCountDesc(_)
SortCountDesc(S) ==
    IF S = {} THEN {<<>>}
    ELSE LET top == {e \in S : \A f \in S : f.count <= e.count}
         IN  UNION { { <<e>> \o rest : rest \in SortCountDesc(S \ {e}) } : e \in top }

\* .to_list(100)
GroupLimit == 100

\* the results the aggregate may return for user_id
aggregate(ps, user_id) ==
    { to_list(order, GroupLimit) :
          order \in SortCountDesc(GroupStage({p \in ps : StatsMatch(p, user_id)})) }

\* first await: count_documents({"user_id": u})
StatsTotal(c, cred) ==
    /\ FreeSlot(c)
    /\ Protected("get_statistics", cred, LAMBDA u :
          /\ calls' = [calls EXCEPT ![c] =
                 [NoCall EXCEPT !.pc = "favorites", !.op = "get_statistics",
                                !.user_id = u, !.cred = CredClass(cred),
                                !.data = Some(
                                    [total_patients |->
                                         count_documents({p \in patients : p.user_id = u}),
                                     favorite_patients |-> 0,
                                     seen |-> <<patients>>])]]
          /\ UNCHANGED <<documents, app, history, tokens, now, users, patients, counters, nextUuid,
                         issued, writes, resp>>)

\* second await: count_documents({"user_id": u, "is_favorite": True})
StatsFavorites(c) ==
    /\ calls[c].pc = "favorites"
    /\ calls[c].op = "get_statistics"
    /\ LET u == calls[c].user_id
           d == The(calls[c].data)
       IN  calls' = [calls EXCEPT ![c].pc = "groups",
                                  ![c].data = Some(
                                      [d EXCEPT !.favorite_patients =
                                                    count_documents(
                                                        {p \in patients :
                                                            p.user_id = u /\ p.is_favorite}),
                                                !.seen = Append(@, patients)])]
    /\ UNCHANGED <<documents, app, history, tokens, now, users, patients, counters, nextUuid,
                   issued, writes, resp>>

\* third await: the aggregate, then the response
StatsGroups(c) ==
    /\ calls[c].pc = "groups"
    /\ calls[c].op = "get_statistics"
    /\ LET u == calls[c].user_id
           d == The(calls[c].data)
       IN  \E groups \in aggregate(patients, u) :
               resp' = [Response("get_statistics", 200, "")
                          EXCEPT !.caller = u, !.cred = calls[c].cred,
                                 !.stats = Some([total_patients |-> d.total_patients,
                                                 favorite_patients |-> d.favorite_patients,
                                                 groups |-> groups]),
                                 !.seen = Append(d.seen, patients)]
    /\ calls' = [calls EXCEPT ![c] = NoCall]
    /\ UNCHANGED <<documents, app, history, tokens, now, users, patients, counters, nextUuid,
                   issued, writes>>

(***************************************************************************)
(* Users and tokens.                                                       *)
(*                                                                         *)
(* A user document keeps id, email, password_hash, the plan, the           *)
(* subscription status and end date, and the timestamps.  server.py names  *)
(* the plan field subscription_plan and the end date trial_end_date; the   *)
(* model has one field for each.  phone, full_name and medical_specialty   *)
(* are only copied and are left out.                                       *)
(***************************************************************************)
\* create_access_token of server.py: 30 days when no expires_delta is given
ServerTokenTtl == Days(30)

\* settings.ACCESS_TOKEN_EXPIRE_MINUTES: short-lived
AccessTokenTtl == Hours(1)

\* settings.REFRESH_TOKEN_EXPIRE_DAYS: long-lived
RefreshTokenTtl == Days(7)

\* jwt.encode({"exp": t + ttl, "sub": subject}, SECRET_KEY)
create_access_token(subject, t) ==
    [Jwt(Some(subject), t + (IF app = "main" THEN AccessTokenTtl ELSE ServerTokenTtl), TRUE)
       EXCEPT !.use = "access"]

\* a refresh token whose payload has no "sub"
create_refresh_token_anonymous(subject, t) ==
    [Jwt(None, t + RefreshTokenTtl, TRUE) EXCEPT !.use = "refresh"]

create_refresh_token(subject, t) ==
    [Jwt(Some(subject), t + RefreshTokenTtl, TRUE) EXCEPT !.use = "refresh"]

\* create_access_token(subject=user.id, plan=user.plan): the plan claim
EmbedPlan(token, plan) == [token EXCEPT !.plan = Some(plan)]

\* the tokens register and login hand out for a user
IssueTokens(user, t) ==
    IF app = "main"
    THEN [access |-> Some(EmbedPlan(create_access_token(user.id, t), user.plan)),
          refresh |-> Some(create_refresh_token(user.id, t))]
    ELSE [access |-> Some(create_access_token(user.id, t)), refresh |-> None]

\* the user document as it is stored
to_response_whole(user) == user

\* User.to_response / user_dict.pop("password_hash")
to_response(user) == [f \in (DOMAIN user) \ {"password_hash"} |-> user[f]]

\* UserCreate bodies; server.py's UserCreate has no plan and ignores it
RegisterInputs ==
    { [email |-> e, password |-> "pw", plan |-> pl] :
          e \in {"a@x.com", "dr.mike@physio.com"}, pl \in {None, Some("pro")} }

\* UserLogin bodies
LoginInputs ==
    { [email |-> e, password |-> pw] :
          e \in {"a@x.com", "dr.mike@physio.com", "nobody@x.com"},
          pw \in {"password123", "pw", "wrong"} }

\* the plan of a new user: the body's, UserPlan.TRIAL when it has none;
\* server.py always stores "regular"
NewUserPlan(body) ==
    IF app = "server" THEN "regular"
    ELSE IF body.plan = None THEN "trial" ELSE The(body.plan)

\* a status that does not look at the plan
NewUserStatusTrialing(body) == IF app = "server" THEN "trial" ELSE "trialing"

\* SubscriptionStatus.TRIALING if plan == UserPlan.TRIAL else ACTIVE;
\* server.py always stores "trial"
NewUserStatus(body) ==
    IF app = "server" THEN "trial"
    ELSE IF NewUserPlan(body) = "trial" THEN "trialing" ELSE "active"

\* the user document register builds
NewUser(body, id, t) ==
    [id |-> id, email |-> body.email, password_hash |-> hash_password(body.password),
     plan |-> NewUserPlan(body), subscription_status |-> NewUserStatus(body),
     subscription_end_date |-> t + Days(30), created_at |-> t, updated_at |-> t]

\* users.find_one({"email": email}): every document the store may return
find_by_email(email) == {x \in users : x.email = email}

\* what an email is to the store when a step looks: "taken" or "free"
EmailKind(email) == IF find_by_email(email) = {} THEN "free" ELSE "taken"

\* the index email_unique_asc of create_indexes; server.py creates none
UniqueEmailIndex == app = "main"

(***************************************************************************)
(* POST /auth/register: the existence check, then the insert, two awaits.  *)
(***************************************************************************)
RegisterCheck(c, body) ==
    /\ FreeSlot(c)
    /\ IF find_by_email(body.email) # {}
       THEN /\ resp' = [Response("register", 400, "Email already registered")
                          EXCEPT !.target = "taken"]
            /\ UNCHANGED <<documents, app, history, tokens, now, users, patients, counters, nextUuid,
                           calls, issued, writes>>
       ELSE /\ calls' = [calls EXCEPT ![c] =
                   [NoCall EXCEPT !.pc = "insert", !.op = "register",
                                  !.email = body.email, !.data = Some(body)]]
            /\ writes' = writes + 1
            /\ UNCHANGED <<documents, app, history, tokens, now, users, patients, counters, nextUuid,
                           issued, resp>>

\* insert_one: with the unique index a second document with the email is
\* refused (DuplicateKeyError), which register_user of app/api/auth.py turns
\* into its "unexpected error" answer; without the index it is stored
RegisterInsert(c) ==
    /\ calls[c].pc = "insert"
    /\ calls[c].op = "register"
    /\ LET body == The(calls[c].data)
           user == NewUser(body, Uuid(nextUuid), now)
           tk == IssueTokens(user, now)
       IN  IF UniqueEmailIndex /\ find_by_email(body.email) # {}
           THEN /\ resp' = [Response("register", 500,
                                     "An unexpected error occurred during registration.")
                              EXCEPT !.target = "taken"]
                /\ UNCHANGED <<users, tokens>>
           ELSE /\ users' = users \cup {user}
                /\ tokens' = tokens \cup tk.access \cup tk.refresh
                /\ resp' = [Response("register", Created, "")
                              EXCEPT !.user = Some(to_response(user)),
                                     !.access_token = tk.access,
                                     !.refresh_token = tk.refresh,
                                     !.target = EmailKind(body.email),
                                     !.asked = body.email]
    /\ nextUuid' = nextUuid + 1
    /\ calls' = [calls EXCEPT ![c] = NoCall]
    /\ UNCHANGED <<documents, app, history, now, patients, counters, issued, writes>>

(***************************************************************************)
(* POST /auth/login.                                                       *)
(***************************************************************************)
\* a failure answer that tells an unknown email from a wrong password
InvalidLoginTelling(kind) ==
    IF kind = "unknown"
    THEN [Response("login", 404, "User not found") EXCEPT !.target = kind]
    ELSE [Response("login", 401, "Invalid email or password") EXCEPT !.target = kind]

\* HTTPException(status_code=401, detail="Invalid email or password");
\* kind records why: "unknown" email or "wrong" password
InvalidLogin(kind) ==
    [Response("login", 401, "Invalid email or password") EXCEPT !.target = kind]

\* authenticate_user / login_user: the user when the email is known and
\* the password verifies
Login(body) ==
    /\ \/ /\ find_by_email(body.email) = {}
          /\ resp' = InvalidLogin("unknown")
          /\ UNCHANGED tokens
       \/ \E user \in find_by_email(body.email) :
             IF ~verify_password(body.password, user.password_hash)
             THEN /\ resp' = InvalidLogin("wrong")
                  /\ UNCHANGED tokens
             ELSE LET tk == IssueTokens(user, now)
                  IN  /\ tokens' = tokens \cup tk.access \cup tk.refresh
                      /\ resp' = [Response("login", 200, "")
                                    EXCEPT !.user = Some(to_response(user)),
                                           !.access_token = tk.access,
                                           !.refresh_token = tk.refresh,
                                           !.caller = user.id,
                                           !.asked = body.email]
    /\ UNCHANGED <<documents, app, history, now, users, patients, counters, nextUuid, calls, issued,
                   writes>>

(***************************************************************************)
(* GET /auth/me.                                                           *)
(***************************************************************************)
Me(cred) ==
    Protected("me", cred, LAMBDA u :
        LET hits == {x \in users : x.id = u}
        IN  /\ IF hits = {}
               THEN resp' = Answer("me", cred, u, 404, "User not found")
               ELSE \E x \in hits :
                        resp' = [Answer("me", cred, u, 200, "")
                                   EXCEPT !.user = Some(to_response(x))]
            /\ UNCHANGED <<documents, app, history, tokens, now, users, patients, counters, nextUuid,
                           calls, issued, writes>>)

(***************************************************************************)
(* POST /auth/refresh (app/api/auth.py; server.py has no such endpoint).   *)
(* The token comes in the body, not through the gate.  The HTTPException   *)
(* raised inside try for a token without subject is none of the exceptions *)
(* the except clauses name, so it is the response.                         *)
(***************************************************************************)
\* a new access token without the plan claim
new_access_token_plain(user, t) == create_access_token(user.id, t)

\* create_access_token(subject=user.id, plan=user.plan)
new_access_token(user, t) == EmbedPlan(create_access_token(user.id, t), user.plan)

\* the answer to a refresh that handed out no token
RefreshRefused(token, status, detail) ==
    [Response("refresh", status, detail)
        EXCEPT !.cred = CredClass(token), !.presented = Some(token)]

Refresh(token) ==
    /\ app = "main"
    /\ LET d == jwt_decode(token, now)
           hits == {x \in users : d.sub # None /\ x.id = The(d.sub)}
       IN  IF d.error = "ExpiredSignatureError"
           THEN /\ resp' = RefreshRefused(token, 401, "Refresh token has expired")
                /\ UNCHANGED tokens
           ELSE IF IsPyJWTError(d.error) \/ d.sub = None
           THEN /\ resp' = RefreshRefused(token, 401, "Invalid refresh token")
                /\ UNCHANGED tokens
           ELSE IF hits = {}
           THEN /\ resp' = RefreshRefused(token, 404, "User not found")
                /\ UNCHANGED tokens
           ELSE \E user \in hits :
                    /\ tokens' = tokens \cup {new_access_token(user, now)}
                    /\ resp' = [Response("refresh", 200, "")
                                  EXCEPT !.access_token = Some(new_access_token(user, now)),
                                         !.refresh_token = Some(token),
                                         !.caller = user.id,
                                         !.cred = CredClass(token),
                                         !.presented = Some(token)]
    /\ UNCHANGED <<documents, app, history, now, users, patients, counters, nextUuid, calls, issued,
                   writes>>

(***************************************************************************)
(* POST /subscription/upgrade (server.py).  The payments router of the    *)
(* layered application is not among the sources; its upgrade is taken to   *)
(* write what server.py's writes.                                          *)
(***************************************************************************)
\* an upgrade that activates the subscription and leaves the plan alone
UpgradeSetStatusOnly(user, t) ==
    [user EXCEPT !.subscription_status = "active", !.updated_at = t]

\* an upgrade that starts a trial of the pro plan
UpgradeSetTrial(user, t) ==
    [user EXCEPT !.plan = "pro",
                 !.subscription_status = IF app = "main" THEN "trialing" ELSE "trial",
                 !.updated_at = t]

\* {"$set": {"subscription_plan": "pro", "subscription_status": "active",
\*           "updated_at": t}}
UpgradeSet(user, t) ==
    [user EXCEPT !.plan = "pro", !.subscription_status = "active", !.updated_at = t]

Upgrade(cred) ==
    Protected("upgrade_subscription", cred, LAMBDA u :
        LET hits == {x \in users : x.id = u}
        IN  IF hits = {}
            THEN /\ resp' = Answer("upgrade_subscription", cred, u, 404, "User not found")
                 /\ UNCHANGED <<documents, app, history, tokens, now, users, patients, counters, nextUuid,
                                calls, issued, writes>>
            ELSE /\ \E x \in hits :
                        users' = (users \ {x}) \cup {UpgradeSet(x, now)}
                 /\ writes' = writes + 1
                 /\ resp' = Answer("upgrade_subscription", cred, u, 200,
                                   "Successfully upgraded to Pro plan")
                 /\ UNCHANGED <<documents, app, history, tokens, now, patients, counters, nextUuid,
                                calls, issued>>)

(***************************************************************************)
(* POST /webhooks/stripe (app/api/webhooks.py): logs the request and       *)
(* answers 200; it reads and writes no collection.                         *)
(***************************************************************************)
StripeWebhook ==
    /\ app = "main"
    /\ resp' = Response("stripe_webhook", 200, "")
    /\ UNCHANGED <<documents, app, history, tokens, now, users, patients, counters, nextUuid, calls,
                   issued, writes>>

(***************************************************************************)
(* GET /patients/pro-feature/ behind Depends(require_pro_user).  The gate  *)
(* is imported from app/core/security.py but not defined in the sources:   *)
(* it is the tier gate of the specification, current-user resolution       *)
(* followed by the requirement that the plan, which the access token       *)
(* embeds, is "pro".                                                       *)
(***************************************************************************)
\* the plan a credential carries
PlanClaim(cred) == IF cred.plan = None THEN "none" ELSE The(cred.plan)

require_pro_user(cred) ==
    { IF g.ok /\ PlanClaim(cred) # "pro"
      THEN [Deny(403, "Pro plan required") EXCEPT !.user_id = g.user_id]
      ELSE g : g \in get_current_user(cred) }

ProFeature(cred) ==
    /\ app = "main"
    /\ \E g \in require_pro_user(cred) :
          resp' = [Response("pro_feature", g.status,
                            IF g.ok THEN "Welcome, PRO user" ELSE g.detail)
                     EXCEPT !.cred = CredClass(cred), !.caller = g.user_id,
                            !.target = PlanClaim(cred), !.presented = Some(cred)]
    /\ UNCHANGED <<documents, app, history, tokens, now, users, patients, counters, nextUuid, calls,
                   issued, writes>>

(***************************************************************************)
(* Document records (layered application, pro users).                      *)
(***************************************************************************)
\* DocumentCreate bodies: a patient of demo_user_1 and an id no patient has
DocumentInputs ==
    { [patient_id |-> id, file_name |-> "scan.pdf", storage_url |-> "gs://bucket/scan.pdf"] :
          id \in {Uuid(1), Uuid(0)} }

\* Document(patient_id=..., user_id=..., file_name=..., storage_url=...)
Document(doc_data, user_id, id, t) ==
    [id |-> id, patient_id |-> doc_data.patient_id, user_id |-> user_id,
     file_name |-> doc_data.file_name, storage_url |-> doc_data.storage_url,
     uploaded_at |-> t]

\* POST /api/documents/: the tier gate, then create_document (build the
\* record, insert it, return it); an exception of the insert is answered
\* 500 with a fixed text
UploadDocument(cred, doc_data) ==
    /\ app = "main"
    /\ nextUuid < MaxUuid
    /\ \E g \in require_pro_user(cred) :
          IF ~g.ok
          THEN /\ resp' = [Refused("upload_document", cred, g) EXCEPT !.caller = g.user_id]
               /\ UNCHANGED <<documents, nextUuid, writes>>
          ELSE \/ /\ resp' = [Answer("upload_document", cred, g.user_id, 201, "")
                                 EXCEPT !.target = doc_data.patient_id,
                                        !.document = Some(Document(doc_data, g.user_id,
                                                                   Uuid(nextUuid), now))]
                  /\ documents' = Append(documents,
                                         Document(doc_data, g.user_id, Uuid(nextUuid), now))
                  /\ nextUuid' = nextUuid + 1
                  /\ writes' = writes + 1
               \/ /\ resp' = [Answer("upload_document", cred, g.user_id, 500,
                                      "An unexpected error occurred while creating the document record.")
                                 EXCEPT !.target = doc_data.patient_id]
                  /\ UNCHANGED <<documents, nextUuid, writes>>
    /\ UNCHANGED <<app, history, tokens, now, users, patients, counters, calls, issued>>

\* document_service.get_documents_for_patient: find({patient_id, user_id})
get_documents_for_patient(patient_id, user_id) ==
    SelectSeq(documents, LAMBDA d : d.patient_id = patient_id /\ d.user_id = user_id)

\* GET /api/documents/{patient_id}
GetPatientDocuments(cred, patient_id) ==
    /\ app = "main"
    /\ \E g \in require_pro_user(cred) :
          IF ~g.ok
          THEN resp' = [Refused("get_patient_documents", cred, g) EXCEPT !.caller = g.user_id]
          ELSE resp' = [Answer("get_patient_documents", cred, g.user_id, 200, "")
                          EXCEPT !.target = patient_id,
                                 !.documents = get_documents_for_patient(patient_id, g.user_id)]
    /\ UNCHANGED <<documents, app, history, tokens, now, users, patients, counters, nextUuid,
                   calls, issued, writes>>

(***************************************************************************)
(* The patient API while the server runs, for the credentials in creds.    *)
(* The guards in front of the actions are the bounds of the model.         *)
(***************************************************************************)
\* tokens the server issued to the two demo users, valid over the whole run
ValidCredentials == {Jwt(Some(u), MaxTime + 1, TRUE) : u \in UserIds}

\* list queries: (search, group, favorites_only)
ListInputs ==
    { <<None, None, FALSE>>, <<Some(<<>>), Some(""), FALSE>>,
      <<Some(<<"a", "n">>), None, FALSE>>, <<None, Some("cardiology"), TRUE>>,
      <<Some(<<"p", "a", "t", "0", "0", "6">>), None, FALSE>>,
      <<Some(<<"E", "M">>), Some("cardiology"), FALSE>> }

CanCreate == Len(issued) < MaxCreates

CanWrite == writes < MaxWrites

Idle == resp = NoResponse

Next ==
    \/ Respond
    \/ Idle /\ Tick
    \/ /\ Idle /\ CanWrite
       /\ \E c \in CallIds, cred \in ValidCredentials, data \in CreateInputs :
              CreateAllocate(c, cred, data)
    \/ Idle /\ \E c \in CallIds : CreateInsert(c)
    \/ /\ Idle
       /\ \E cred \in ValidCredentials, q \in ListInputs :
              GetPatients(cred, q[1], q[2], q[3])
    \/ Idle /\ \E cred \in ValidCredentials, id \in PatientIdInputs : GetPatient(cred, id)
    \/ /\ Idle /\ CanWrite
       /\ \E c \in CallIds, cred \in ValidCredentials, id \in PatientIdInputs,
             payload \in UpdateInputs : UpdateWrite(c, cred, id, payload)
    \/ Idle /\ \E c \in CallIds : UpdateReread(c)
    \/ /\ Idle /\ CanWrite
       /\ \E cred \in ValidCredentials, id \in PatientIdInputs : DeletePatient(cred, id)
    \/ /\ Idle /\ CanWrite
       /\ \E cred \in ValidCredentials, id \in PatientIdInputs, note_data \in NoteInputs :
              AddNote(cred, id, note_data)
    \/ /\ Idle
       /\ \E cred \in ValidCredentials, id \in PatientIdInputs :
              GetPatientNotes(cred, id)

Spec == Init /\ [][Next]_vars

(***************************************************************************)
(* The same API when clients present every kind of credential.             *)
(***************************************************************************)
NextGate ==
    \/ Respond
    \/ Idle /\ Tick
    \/ /\ Idle /\ writes < MaxGateWrites
       /\ \E c \in CallIds, cred \in Credentials, data \in CreateInputs :
              CreateAllocate(c, cred, data)
    \/ Idle /\ \E c \in CallIds : CreateInsert(c)
    \/ /\ Idle
       /\ \E cred \in Credentials, q \in ListInputs :
              GetPatients(cred, q[1], q[2], q[3])
    \/ Idle /\ \E cred \in Credentials, id \in PatientIdInputs : GetPatient(cred, id)
    \/ /\ Idle /\ writes < MaxGateWrites
       /\ \E c \in CallIds, cred \in Credentials, id \in PatientIdInputs,
             payload \in UpdateInputs : UpdateWrite(c, cred, id, payload)
    \/ Idle /\ \E c \in CallIds : UpdateReread(c)
    \/ /\ Idle /\ writes < MaxGateWrites
       /\ \E cred \in Credentials, id \in PatientIdInputs : DeletePatient(cred, id)
    \/ /\ Idle /\ writes < MaxGateWrites
       /\ \E cred \in Credentials, id \in PatientIdInputs, note_data \in NoteInputs :
              AddNote(cred, id, note_data)
    \/ /\ Idle
       /\ \E cred \in Credentials, id \in PatientIdInputs : GetPatientNotes(cred, id)
    \/ Idle /\ writes < MaxGateWrites /\ \E cred \in Credentials : Upgrade(cred)
    \/ Idle /\ \E cred \in Credentials : ProFeature(cred)

SpecGate == Init /\ [][NextGate]_vars

(***************************************************************************)
(* Concurrent create-patient calls: up to MaxCalls in flight together.     *)
(***************************************************************************)
NextCreate ==
    \/ Respond
    \/ /\ Idle /\ CanCreate
       /\ \E c \in CallIds, cred \in ValidCredentials, data \in CreateInputs :
              CreateAllocate(c, cred, data)
    \/ Idle /\ \E c \in CallIds : CreateInsert(c)

SpecCreate == Init /\ [][NextCreate]_vars

(***************************************************************************)
(* server.py across restarts: startup_event runs init_dummy_data on the    *)
(* database the previous run left behind.                                  *)
(***************************************************************************)
Startup ==
    /\ app = "server"
    /\ \A c \in CallIds : calls[c].pc = "idle"
    /\ nextUuid + DummyUuids <= MaxUuid
    /\ users' = InsertDemoUsers(users, DemoUsers(now), 1)
    /\ patients' = InsertDummyPatients(patients, DummyPatients(now, nextUuid), 1)
    /\ counters' = SetUpCounters(counters)
    /\ nextUuid' = nextUuid + DummyUuids
    /\ UNCHANGED <<documents, app, history, tokens, now, calls, issued, writes, resp>>

InitServer ==
    /\ app = "server"
    /\ InitStore

\* tokens of demo_user_1, the user whose counter the startup code writes
DemoCredentials == {Jwt(Some("demo_user_1"), MaxTime + 1, TRUE)}

NextRestart ==
    \/ Respond
    \/ Idle /\ Startup
    \/ /\ Idle /\ CanCreate
       /\ \E c \in CallIds, cred \in DemoCredentials, data \in CreateInputs :
              CreateAllocate(c, cred, data)
    \/ Idle /\ \E c \in CallIds : CreateInsert(c)
    \/ /\ Idle /\ CanWrite
       /\ \E cred \in DemoCredentials, id \in PatientIdInputs : DeletePatient(cred, id)

SpecRestart == InitServer /\ [][NextRestart]_vars

(***************************************************************************)
(* Registration, login, upgrade and the tier gate.  Clients present the    *)
(* tokens the server issued to them, or text that is no token.             *)
(***************************************************************************)
CanRegister == writes < MaxRegs

HeldCredentials == tokens \cup {Garbage}

\* what a client may send as refresh token: a token it holds, text that is
\* no token, a token that has expired, one signed with another key, and a
\* signed one without subject
RefreshInputs ==
    HeldCredentials
      \cup {Jwt(Some("demo_user_2"), 0, TRUE), Jwt(Some("demo_user_2"), MaxTime + 1, FALSE),
             Jwt(None, MaxTime + 1, TRUE)}

NextAuth ==
    \/ Respond
    \/ Idle /\ CanRegister /\ \E c \in CallIds, body \in RegisterInputs : RegisterCheck(c, body)
    \/ Idle /\ \E c \in CallIds : RegisterInsert(c)
    \/ Idle /\ \E body \in LoginInputs : Login(body)
    \/ Idle /\ CanRegister /\ \E cred \in HeldCredentials : Upgrade(cred)
    \/ Idle /\ \E cred \in HeldCredentials : ProFeature(cred)
    \/ Idle /\ \E token \in RefreshInputs : Refresh(token)
    \/ Idle /\ StripeWebhook
    \/ Idle /\ \E cred \in HeldCredentials : Me(cred)

SpecAuth == Init /\ [][NextAuth]_vars

(***************************************************************************)
(* Document records: users log in, upgrade, and create and list document   *)
(* records with the tokens they hold.                                      *)
(***************************************************************************)
NextDocs ==
    \/ Respond
    \/ Idle /\ \E e \in {"dr.sarah@clinic.com", "dr.mike@physio.com"} :
                  Login([email |-> e, password |-> "password123"])
    \/ Idle /\ CanRegister /\ \E cred \in HeldCredentials : Upgrade(cred)
    \/ /\ Idle /\ Len(documents) < MaxDocs
       /\ \E cred \in HeldCredentials, doc_data \in DocumentInputs :
              UploadDocument(cred, doc_data)
    \/ Idle /\ \E cred \in HeldCredentials, patient_id \in {d.patient_id : d \in DocumentInputs} :
                  GetPatientDocuments(cred, patient_id)

SpecDocs == Init /\ [][NextDocs]_vars

(***************************************************************************)
(* Stored patients over their life: updates, note appends, the delete and  *)
(* the reads, with up to MaxCalls updates between their two awaits.        *)
(***************************************************************************)
\* the id of the first patient init_dummy_data stored for demo_user_1
RecordIds == {Uuid(1)}

\* PatientUpdate bodies: no field, one field, two fields
RecordUpdateInputs ==
    { NoUpdate,
      [NoUpdate EXCEPT !.name = Some(<<"Z", "o", "e">>)],
      [NoUpdate EXCEPT !.group = Some("vip"), !.is_favorite = Some(TRUE)] }

NextRecord ==
    \/ Respond
    \/ Idle /\ Tick
    \/ /\ Idle /\ writes < MaxRecordWrites
       /\ \E c \in CallIds, cred \in DemoCredentials, id \in RecordIds,
             payload \in RecordUpdateInputs : UpdateWrite(c, cred, id, payload)
    \/ Idle /\ \E c \in CallIds : UpdateReread(c)
    \/ /\ Idle /\ writes < MaxRecordWrites
       /\ \E cred \in DemoCredentials, id \in RecordIds : DeletePatient(cred, id)
    \/ /\ Idle /\ writes < MaxRecordWrites
       /\ \E cred \in DemoCredentials, id \in RecordIds,
              note_data \in {[content |-> "checkup", visit_type |-> "regular"]} :
              AddNote(cred, id, note_data)
    \/ Idle /\ \E cred \in DemoCredentials, id \in RecordIds : GetPatient(cred, id)
    \/ Idle /\ \E cred \in DemoCredentials, id \in RecordIds : GetPatientNotes(cred, id)
    \/ Idle /\ \E cred \in DemoCredentials : GetPatients(cred, None, None, FALSE)

SpecRecord == Init /\ [][NextRecord]_vars

(***************************************************************************)
(* Storage failures.  An await on the store can raise an error of the      *)
(* driver (pymongo.errors.PyMongoError) instead of returning; the handler  *)
(* then runs its except clause, if it has one.  The failure is taken at    *)
(* the handler's first await, before anything is written.                  *)
(***************************************************************************)
\* str(e) of the driver's exception: it names the server and the cause
StorageErrors ==
    { "ServerSelectionTimeoutError: mongodb:27017: connection refused",
      "AutoReconnect: mongodb:27017: connection closed" }

\* the fixed texts of the except clauses of app/api
GenericText(op) ==
    CASE op = "create_patient" -> "An unexpected error occurred while creating the patient."
      [] op = "get_patients" -> "An unexpected error occurred while fetching patients."
      [] op = "get_statistics" -> "An unexpected error occurred while fetching statistics."
      [] op = "register" -> "An unexpected error occurred during registration."

\* the handlers of app/api that wrap their service call in try/except
Wrapped == {"create_patient", "get_patients", "get_statistics", "register"}

\* except Exception as e: raise HTTPException(status_code=500, detail=str(e))
\* in every handler of server.py; in app/api a fixed text where the handler
\* has an except clause, and no handler at all where it has none
InternalError(op, e) ==
    IF app = "server" THEN Response(op, 500, e)
    ELSE IF op \in Wrapped THEN Response(op, 500, GenericText(op))
    ELSE \* Starlette's ServerErrorMiddleware, for an exception no handler caught
         Response(op, 500, "Internal Server Error")

\* the operations behind Depends(get_current_user)
PatientOps == {"create_patient", "get_patients", "get_patient", "update_patient",
               "delete_patient", "add_patient_note", "get_patient_notes",
               "get_statistics"}

\* a patient operation whose first await on the store raised e
PatientOpFails(op, cred, e) ==
    Protected(op, cred, LAMBDA u :
        /\ resp' = [InternalError(op, e)
                      EXCEPT !.caller = u, !.cred = CredClass(cred),
                             !.target = "storage_error", !.asked = e]
        /\ UNCHANGED <<documents, app, history, tokens, now, users, patients, counters, nextUuid,
                       calls, issued, writes>>)

\* register or login whose first await on the store raised e
AuthOpFails(op, e) ==
    /\ resp' = [InternalError(op, e) EXCEPT !.target = "storage_error", !.asked = e]
    /\ UNCHANGED <<documents, app, history, tokens, now, users, patients, counters, nextUuid,
                   calls, issued, writes>>

NextFailure ==
    \/ Respond
    \/ /\ Idle
       /\ \E op \in PatientOps, cred \in ValidCredentials, e \in StorageErrors :
              PatientOpFails(op, cred, e)
    \/ Idle /\ \E op \in {"register", "login"}, e \in StorageErrors : AuthOpFails(op, e)
    \/ Idle /\ \E cred \in ValidCredentials, id \in PatientIdInputs : GetPatient(cred, id)
    \/ Idle /\ CanRegister /\ \E c \in CallIds, body \in RegisterInputs : RegisterCheck(c, body)
    \/ Idle /\ \E c \in CallIds : RegisterInsert(c)
    \/ Idle /\ \E body \in LoginInputs : Login(body)

SpecFailure == Init /\ [][NextFailure]_vars

(***************************************************************************)
(* Statistics while the caller's patients are created, updated and         *)
(* deleted: each of the three queries sees the store of its moment.        *)
(***************************************************************************)
\* updates that change what the statistics count
StatsUpdateInputs ==
    { [NoUpdate EXCEPT !.group = Some("vip"), !.is_favorite = Some(TRUE)],
      [NoUpdate EXCEPT !.is_favorite = Some(FALSE)] }

NextStats ==
    \/ Respond
    \* one statistics call at a time: the calls do not affect one another
    \/ /\ Idle /\ (\A d \in CallIds : calls[d].op # "get_statistics")
       /\ \E c \in CallIds, cred \in ValidCredentials : StatsTotal(c, cred)
    \/ Idle /\ \E c \in CallIds : StatsFavorites(c)
    \/ Idle /\ \E c \in CallIds : StatsGroups(c)
    \/ /\ Idle /\ writes < MaxStatsWrites
       /\ \E c \in CallIds, cred \in ValidCredentials, data \in StatsCreateInputs :
              CreateAllocate(c, cred, data)
    \/ Idle /\ \E c \in CallIds : CreateInsert(c)
    \/ /\ Idle /\ writes < MaxStatsWrites
       /\ \E c \in CallIds, cred \in DemoCredentials, id \in RecordIds,
             payload \in StatsUpdateInputs : UpdateWrite(c, cred, id, payload)
    \/ Idle /\ \E c \in CallIds : UpdateReread(c)
    \/ /\ Idle /\ writes < MaxStatsWrites
       /\ \E cred \in DemoCredentials, id \in RecordIds : DeletePatient(cred, id)

SpecStats == Init /\ [][NextStats]_vars

(***************************************************************************)
(* Update calls that supply different values for one field of one patient, *)
(* and the delete, between the two awaits of one another.                  *)
(***************************************************************************)
NextRace ==
    \/ Respond
    \/ /\ Idle /\ writes < MaxRaceWrites
       /\ \E c \in CallIds, cred \in DemoCredentials, id \in RecordIds,
             payload \in StatsUpdateInputs : UpdateWrite(c, cred, id, payload)
    \/ Idle /\ \E c \in CallIds : UpdateReread(c)
    \/ /\ Idle /\ writes < MaxRaceWrites
       /\ \E cred \in DemoCredentials, id \in RecordIds : DeletePatient(cred, id)

SpecRace == Init /\ [][NextRace]_vars

(***************************************************************************)
(* Display ids.                                                            *)
(***************************************************************************)
\* the patients init_dummy_data leaves on an empty database
SeedPatients == InsertDummyPatients({}, DummyPatients(0, 1), 1)

\* the highest sequence number among the display ids a user holds at startup
PriorMax(u) ==
    LET held == {k \in 1..DummySequence :
                    \E p \in SeedPatients :
                        p.user_id = u /\ p.patient_id = FormatPatientId(k)}
    IN  IF held = {} THEN 0 ELSE CHOOSE k \in held : \A j \in held : j <= k

\* C1: the display ids assigned to a user's create-patient calls, however
\* the calls' allocate and insert steps interleave, are pairwise distinct
\* and are the consecutive numbers after the highest one the user had
\* before; the stored patients of a user carry distinct display ids.
C1_ConcurrentCreatesConsecutive ==
    /\ \A u \in UserIds :
          LET mine == (SelectSeq(issued, LAMBDA e : e[1] = u))
          IN  /\ \A i \in 1..Len(mine) : mine[i][2] = FormatPatientId(PriorMax(u) + i)
              /\ \A i, j \in 1..Len(mine) : i # j => mine[i][2] # mine[j][2]
    /\ \A c \in CallIds :
          calls[c].pc = "insert" =>
              \E i \in 1..Len(issued) : issued[i] = <<calls[c].user_id, calls[c].patient_id>>
    /\ \A p, q \in patients :
          p.user_id = q.user_id /\ p.patient_id = q.patient_id => p = q

\* MaxCalls create calls of one user have all allocated and none has inserted
C1_Witness ==
    /\ MaxCalls >= 3
    /\ \A c \in CallIds :
          calls[c].pc = "insert" /\ calls[c].user_id = "demo_user_2"

NoCounterDecrease ==
    \A k \in DOMAIN counters : k \in DOMAIN counters' /\ counters'[k] >= counters[k]

NoReissue ==
    \A i, j \in 1..Len(issued) : i # j => issued[i] # issued[j]

\* C2: over create, delete and startup operations no user's counter ever
\* decreases and no display id is returned twice to the same user.
C2_NeverReissued == [][NoCounterDecrease]_vars /\ []NoReissue

(***************************************************************************)
(* Tenant isolation.                                                       *)
(***************************************************************************)
\* the users on whose behalf a step ran
StepCallers ==
    {resp'.caller : x \in {r \in {resp'} : r # resp /\ r # NoResponse}}
        \cup {calls'[c].user_id :
                 c \in {d \in CallIds : calls'[d] # calls[d] /\ calls'[d].pc # "idle"}}

IsolatedReads(r) ==
    /\ \A p \in r.patient \cup {r.patients[i] : i \in DOMAIN r.patients} :
           p.user_id = r.caller
    /\ r.status \in {200, 201} /\ r.target # "" => r.target = "owned"

IsolatedWrites ==
    \A p \in (patients \ patients') \cup (patients' \ patients) :
        p.user_id \in StepCallers

\* C3: no call made with one user's identity returns, modifies or removes
\* a patient owned by another user, whatever opaque id the call is given.
C3_TenantIsolation == [][IsolatedWrites /\ IsolatedReads(resp')]_vars

\* demo_user_2 asked to delete a patient of demo_user_1, which is still there
C3_Witness ==
    /\ resp.op = "delete_patient"
    /\ resp.caller = "demo_user_2"
    /\ resp.target = "foreign"
    /\ \E p \in patients : p.id = Uuid(1) /\ p.user_id = "demo_user_1"

\* what the client sees of a response
Visible(r) ==
    [r EXCEPT !.caller = "", !.cred = "", !.target = "", !.asked = "", !.query = <<>>,
              !.presented = None, !.seen = <<>>]

\* C4: get, update (any payload), delete, add-note and list-notes answer an
\* id that names no patient and an id that names another user's patient
\* with one and the same response, 404 "Patient not found", and change
\* nothing in the store.
C4_NotFoundIdentical ==
    [][(resp' # resp /\ resp'.target \in {"absent", "foreign"}) =>
           /\ resp'.op \in {"get_patient", "update_patient", "delete_patient",
                            "add_patient_note", "get_patient_notes"}
           /\ Visible(resp') = Response(resp'.op, 404, "Patient not found")
           /\ UNCHANGED <<users, patients, counters, nextUuid, calls, issued, tokens>>]_vars

\* an update of another user's patient was answered 404 by the layered app
C4_Witness ==
    /\ app = "main"
    /\ resp.op = "update_patient"
    /\ resp.target = "foreign"
    /\ resp.status = 404

(***************************************************************************)
(* Accounts.                                                               *)
(***************************************************************************)
\* C5: no two user documents have the same email, also after register
\* calls for one email whose existence checks all ran before any insert.
C5_EmailUnique == \A x, y \in users : x.email = y.email => x = y

\* C6: the register of app/api/auth.py answers a call whose email belongs
\* to a user with 400 'Email already registered', creates no user and hands
\* out no token, also when the email was taken between the call's check
\* and its insert.
C6_DuplicateRejected ==
    [][(app = "main" /\ resp' # resp /\ resp'.op = "register"
            /\ resp'.target = "taken") =>
           /\ Visible(resp') = Response("register", 400, "Email already registered")
           /\ UNCHANGED <<users, tokens>>]_vars

\* C7: login answers an unknown email and a wrong password for a known
\* email with one and the same response, 401 'Invalid email or password',
\* and changes no stored state.
C7_LoginFailureUniform ==
    [][(resp' # resp /\ resp'.op = "login" /\ resp'.target \in {"unknown", "wrong"}) =>
           /\ Visible(resp') = Response("login", 401, "Invalid email or password")
           /\ UNCHANGED <<users, patients, counters, nextUuid, calls, issued, tokens>>]_vars

\* a known email with a wrong password was refused
C7_Witness ==
    /\ resp.op = "login"
    /\ resp.target = "wrong"
    /\ resp.status = 401

Unauthenticated(r) ==
    \/ r.status = 401
    \/ r.status = 403 /\ r.detail = "Not authenticated"

\* C9: a protected operation called with a missing, malformed (not a JWT,
\* or not signed with the key) or expired token is refused as
\* unauthenticated, returns no record and changes nothing; expired and
\* malformed tokens both get 401, and the gate of app/core/security.py says
\* 'Token has expired' for the expired one and something else for the
\* malformed one.
C9_BadTokenRefused ==
    [][(resp' # resp
            /\ resp'.cred \in {"missing", "malformed", "forged", "expired"}) =>
           /\ Unauthenticated(resp')
           /\ Visible(resp') = Response(resp'.op, resp'.status, resp'.detail)
           /\ resp'.caller = ""
           /\ UNCHANGED <<users, patients, counters, nextUuid, calls, issued, tokens>>
           /\ resp'.cred = "expired" =>
                  /\ resp'.status = 401
                  /\ app = "main" => resp'.detail = "Token has expired"
           /\ resp'.cred \in {"malformed", "forged"} =>
                  /\ resp'.status = 401
                  /\ resp'.detail # "Token has expired"]_vars

\* a delete with an expired token was refused by the layered app
C9_Witness ==
    /\ app = "main"
    /\ resp.op = "delete_patient"
    /\ resp.cred = "expired"
    /\ resp.detail = "Token has expired"

\* C10: the gate of app/core/security.py answers a signed, unexpired token
\* without a subject with 401 'Invalid authentication credentials: user ID
\* not in token' and resolves no user.
C10_NoSubjectUnauthorized ==
    (app = "main" /\ resp.cred = "nosub") =>
        /\ resp.status = 401
        /\ resp.detail = "Invalid authentication credentials: user ID not in token"
        /\ resp.caller = ""

(***************************************************************************)
(* Patient records.                                                        *)
(***************************************************************************)
\* the step is the first step of an update call of p's owner that names p:
\* one that wrote and now waits for its second query, or one answered at once
UpdateAddressed(p) ==
    \/ \E c \in CallIds :
          /\ calls[c].pc = "idle" /\ calls'[c].pc = "reread"
          /\ calls'[c].target = p.id /\ calls'[c].user_id = p.user_id
    \/ /\ calls' = calls /\ resp' # resp /\ resp'.op = "update_patient"
       /\ resp'.asked = p.id /\ resp'.caller = p.user_id

\* the payload of the update call that wrote in this step
WrittenPayload ==
    {The(calls'[c].data) :
        c \in {d \in CallIds : calls[d].pc = "idle" /\ calls'[d].pc = "reread"}}

\* q is p with at most the fields supplied by payload and updated_at changed
SameButSupplied(p, q, payload) ==
    /\ q.id = p.id /\ q.patient_id = p.patient_id /\ q.user_id = p.user_id
    /\ q.notes = p.notes /\ q.created_at = p.created_at
    /\ q.name = (IF payload.name = None THEN p.name ELSE The(payload.name))
    /\ q.phone = (IF payload.phone = None THEN p.phone ELSE The(payload.phone))
    /\ q.email = (IF payload.email = None THEN p.email ELSE The(payload.email))
    /\ q.group = (IF payload.group = None THEN p.group ELSE The(payload.group))
    /\ q.is_favorite = (IF payload.is_favorite = None THEN p.is_favorite
                        ELSE The(payload.is_favorite))

\* C11: an update call changes, in the one patient it names, only the
\* fields its payload supplies with a value and updated_at: the omitted
\* fields, the owner, both ids, the creation time and the notes keep their
\* values, no other patient changes, and a step that answers an update
\* changes no patient at all.
C11_UpdateFrame ==
    [][/\ \A payload \in WrittenPayload :
             \E p \in patients, q \in patients' :
                 /\ UpdateAddressed(p)
                 /\ SameButSupplied(p, q, payload)
                 /\ patients' \ {q} = patients \ {p}
       /\ (resp' # resp /\ resp'.op = "update_patient") => patients' = patients
      ]_vars

\* an update that supplied only the name wrote to a patient that had got a
\* second note and a new group before
C11_Witness ==
    \E c \in CallIds, p \in patients :
        /\ calls[c].pc = "reread" /\ calls[c].target = p.id
        /\ calls[c].data = Some([NoUpdate EXCEPT !.name = Some(<<"Z", "o", "e">>)])
        /\ p.name = <<"Z", "o", "e">> /\ p.group = "vip" /\ Len(p.notes) = 2

\* C12: every update call that names a patient of the caller writes the
\* time it read from the clock into that patient's updated_at, whatever
\* the payload, the empty one included.
C12_UpdateRefreshes ==
    [][\A p \in patients :
          UpdateAddressed(p) =>
              \E c \in CallIds, q \in patients' :
                  /\ calls[c].pc = "idle" /\ calls'[c].pc = "reread"
                  /\ q.id = p.id /\ q.updated_at = calls'[c].stamp
      ]_vars

\* C13: after a create-patient call with body P was answered, and as long
\* as no update, note or delete touched the new patient, get-by-id by the
\* same user with the id of the answer returns a record with P's fields,
\* the caller as owner, the display id allocated to the call and no notes.
C13_CreateGetRoundTrip ==
    [][\A e \in history :
          (/\ e.op = "create_patient" /\ (\A f \in history : f.id = e.id => f = e)
           /\ resp' # resp /\ resp'.op = "get_patient"
           /\ resp'.asked = e.id /\ resp'.caller = e.user_id) =>
              /\ resp'.status = 200
              /\ \E p \in resp'.patient :
                    LET P == The(e.data).payload
                    IN  /\ p.id = e.id /\ p.user_id = e.user_id
                        /\ p.name = P.name /\ p.phone = P.phone /\ p.email = P.email
                        /\ p.group = P.group /\ p.is_favorite = P.is_favorite
                        /\ p.patient_id = The(e.data).patient_id
                        /\ \E i \in 1..Len(issued) : issued[i] = <<e.user_id, p.patient_id>>
                        /\ p.notes = <<>>
      ]_vars

\* demo_user_2 created a patient in cardiology marked as favorite and read
\* it back
C13_Witness ==
    /\ resp.op = "get_patient" /\ resp.status = 200 /\ resp.caller = "demo_user_2"
    /\ \E e \in history, p \in resp.patient :
          /\ e.op = "create_patient" /\ e.id = resp.asked /\ p.id = e.id
          /\ p.group = "cardiology" /\ p.is_favorite

(***************************************************************************)
(* Notes.                                                                  *)
(***************************************************************************)
\* s holds every element of t exactly once and nothing else
Rearranged(s, t) ==
    /\ Len(s) = Len(t)
    /\ \A j \in 1..Len(t) : Cardinality({i \in 1..Len(s) : s[i] = t[j]}) = 1

\* C14: list-notes answers with the notes of the caller's patient ordered
\* by timestamp, none earlier than the one after it, each stored note once,
\* in whatever order the document stores them.
C14_NotesNewestFirst ==
    (resp.op = "get_patient_notes" /\ resp.status = 200) =>
        /\ \A i \in 1..(Len(resp.notes) - 1) :
              resp.notes[i].timestamp >= resp.notes[i + 1].timestamp
        /\ \E p \in patients :
              /\ p.id = resp.asked /\ p.user_id = resp.caller
              /\ Rearranged(resp.notes, p.notes)

\* the document stores a note of tick 1 before a note of tick 0, after the
\* seeded one
C14_Witness ==
    /\ resp.op = "get_patient_notes" /\ resp.status = 200 /\ Len(resp.notes) = 3
    /\ \E p \in patients :
          /\ p.id = resp.asked
          /\ p.notes[1].timestamp < p.notes[3].timestamp
          /\ p.notes[3].timestamp < p.notes[2].timestamp

\* the notes a patient had when the server started
SeedNotes(id) ==
    IF \E p \in SeedPatients : p.id = id
    THEN (CHOOSE p \in SeedPatients : p.id = id).notes
    ELSE <<>>

\* the notes the add-note calls answered with success put on a patient
AppendedNotes(id) ==
    {The(e.data) : e \in {f \in history : f.op = "add_patient_note" /\ f.id = id}}

\* every stored patient holds its earlier notes and the appended ones, once each
NotesKept ==
    \A p \in patients :
        /\ {p.notes[i] : i \in 1..Len(p.notes)}
              = {SeedNotes(p.id)[i] : i \in 1..Len(SeedNotes(p.id))} \cup AppendedNotes(p.id)
        /\ Len(p.notes) = Len(SeedNotes(p.id)) + Cardinality(AppendedNotes(p.id))

\* a step that appends a note leaves every other field of the patient, but
\* updated_at, and every other patient as they were
AppendOnly ==
    \A e \in history' \ history :
        e.op = "add_patient_note" =>
            \E p \in patients, q \in patients' :
                /\ p.id = e.id /\ p.user_id = e.user_id
                /\ q = [p EXCEPT !.notes = Append(p.notes, The(e.data)),
                                 !.updated_at = q.updated_at]
                /\ patients' \ {q} = patients \ {p}

\* C15: however add-note calls on a patient are ordered among themselves
\* and among update calls on the same patient, the patient's notes are its
\* earlier notes plus one note per successful add-note call, none lost and
\* none twice, and an append changes nothing but the notes and updated_at,
\* so that what the updates wrote stays.
C15_NotesAppended == []NotesKept /\ [][AppendOnly]_vars

\* two notes were appended to a patient that an update renamed, while an
\* update of that patient waits for its second query
C15_Witness ==
    \E p \in patients, c \in CallIds :
        /\ Len(p.notes) = 3 /\ p.name = <<"Z", "o", "e">>
        /\ calls[c].pc = "reread" /\ calls[c].target = p.id
        /\ \E e \in history : e.id = p.id /\ e.op = "update_patient"

(***************************************************************************)
(* Deleted patients.                                                       *)
(***************************************************************************)
\* the ids whose delete was answered with success
Deleted(h) == {e.id : e \in {f \in h : f.op = "delete_patient"}}

\* C16: once a delete was answered with success, no stored patient has the
\* id again, whatever update or add-note follows or completes; every get,
\* update, add-note, list-notes and delete that arrives later for the id is
\* answered 404 'Patient not found', no update of it gets as far as its
\* second query, and list does not return it.
C16_DeletedStaysGone ==
    [][/\ \A p \in patients' : p.id \notin Deleted(history')
       /\ (resp' # resp /\ resp'.asked \in Deleted(history) /\ calls' = calls) =>
             /\ resp'.op \in {"get_patient", "update_patient", "delete_patient",
                              "add_patient_note", "get_patient_notes"}
             /\ Visible(resp') = Response(resp'.op, 404, "Patient not found")
       /\ \A c \in CallIds :
             (calls[c].pc = "idle" /\ calls'[c].pc = "reread") =>
                 calls'[c].target \notin Deleted(history)
       /\ (resp' # resp /\ resp'.op = "get_patients") =>
             \A i \in 1..Len(resp'.patients) :
                 resp'.patients[i].id \notin Deleted(history)
      ]_vars

\* an add-note for a deleted patient was answered 404 while an update that
\* wrote before the delete still waits for its second query
C16_Witness ==
    /\ resp.op = "add_patient_note" /\ resp.status = 404
    /\ resp.asked \in Deleted(history)
    /\ \E c \in CallIds : calls[c].pc = "reread" /\ calls[c].target = resp.asked

(***************************************************************************)
(* The list.                                                               *)
(***************************************************************************)
Lower(text) == [i \in 1..Len(text) |-> LowerChar(text[i])]

\* pattern occurs in text as a run of consecutive characters, case ignored
Contains(text, pattern) ==
    \E i \in 0..(Len(text) - Len(pattern)) :
        Lower(SubSeq(text, i + 1, i + Len(pattern))) = Lower(pattern)

\* p passes every filter of the query q = <<search, group, favorites_only>>
Satisfies(p, q) ==
    /\ q[1] # None =>
          \/ Contains(p.name, The(q[1])) \/ Contains(p.patient_id, The(q[1]))
          \/ Contains(p.phone, The(q[1])) \/ Contains(p.email, The(q[1]))
    /\ q[2] \notin {None, Some("")} => p.group = The(q[2])
    /\ q[3] => p.is_favorite

AccessTokenOf(a, x) ==
    /\ a.kind = "jwt" /\ a.signed /\ a.exp > now
    /\ a.sub = Some(x.id) /\ a.plan = Some(x.plan)

Registered == IF app = "main" /\ resp' # resp /\ resp'.op = "register"
              THEN users' \ users ELSE {}

\* the UserCreate body of the registration that the step finished
RegisteredBody == {The(calls[c].data) : c \in {d \in DOMAIN calls :
                        calls[d].op = "register" /\ calls'[d] # calls[d]}}

StatusMoves ==
    { <<m[1].subscription_status, m[2].subscription_status>> :
          m \in {n \in users \X users' :
                    /\ n[1].id = n[2].id
                    /\ n[1].subscription_status # n[2].subscription_status} }

\* C21: over register, login, refresh, upgrade and webhook calls a stored
\* user's subscription status changes only from trialing to active, which
\* only upgrade does, or from trialing to inactive; no step moves a user out
\* of active or inactive or back to trialing, and no user document is lost.
C21_StatusMachine ==
    [][/\ \A m \in StatusMoves :
              /\ (m[1] \in {"trialing", "trial"})
              /\ m[2] \in {"active", "inactive"}
              /\ m[2] = "active" => resp'.op = "upgrade_subscription"
       /\ \A x \in users : \E y \in users' : y.id = x.id
      ]_vars

\* a user who registered on the trial plan upgraded and is active, and the
\* webhook was called after that
C21_Witness ==
    /\ app = "main" /\ resp.op = "stripe_webhook"
    /\ \E x \in users, token \in tokens :
          /\ token.sub = Some(x.id) /\ token.plan = Some("trial")
          /\ x.subscription_status = "active" /\ x.plan = "pro"

(***************************************************************************)
(* The public user view.                                                   *)
(***************************************************************************)
\* C22: the user that a response of register, login or me carries has no
\* password_hash field: it is the stored document of that user with exactly
\* the other fields, while the stored document, like every stored user
\* document, holds the hash of the user's password.
C22_HashNeverSent ==
    /\ \A v \in resp.user :
          /\ resp.op \in {"register", "login", "me"}
          /\ "password_hash" \notin DOMAIN v
          /\ \E x \in users :
                /\ x.id = v.id /\ DOMAIN v = ((DOMAIN x) \ {"password_hash"})
                /\ \A f \in ((DOMAIN x) \ {"password_hash"}) : v[f] = x[f]
    /\ \A x \in users :
          /\ "password_hash" \in DOMAIN x
          /\ \E pw \in {"password123", "pw"} : verify_password(pw, x.password_hash)

\* me answered a user who registered in this run with that user's view
C22_Witness ==
    /\ resp.op = "me" /\ resp.status = 200
    /\ \E v \in resp.user, x \in users :
          /\ x.id = v.id /\ x.email = "a@x.com" /\ v.email = "a@x.com"
          /\ verify_password("pw", x.password_hash)

(***************************************************************************)
(* Statistics.                                                             *)
(***************************************************************************)
\* the breakdown counts each patient of some once, under its group label,
\* and has no other entries
BreakdownOf(groups, some) ==
    /\ \A p \in some :
          /\ Cardinality({j \in DOMAIN groups : groups[j]._id = p.group}) = 1
          /\ \A i \in {j \in DOMAIN groups : groups[j]._id = p.group} :
                groups[i].count = Cardinality({q \in some : q.group = p.group})
    /\ \A i \in DOMAIN groups : \E p \in some : p.group = groups[i]._id

RECURSIVE SumCounts(_)
SumCounts(groups) ==
    IF groups = <<>> THEN 0 ELSE Head(groups).count + SumCounts(Tail(groups))

\* C29: every statistics response has favorite_patients <= total_patients
\* and the counts of its groups sum to at most total_patients, also when
\* creates, updates and deletes of the caller run between the call's three
\* queries.
C29_StatsConsistent ==
    \A st \in resp.stats :
        /\ st.favorite_patients <= st.total_patients
        /\ SumCounts(st.groups) <= st.total_patients

(***************************************************************************)
(* Failure policy.                                                         *)
(***************************************************************************)
\* C24: a patient or auth operation whose store call failed answers 500
\* with a fixed generic text that is not the text of the underlying error;
\* an id that names no patient of the caller is still answered 404 and a
\* registration refused for a taken email 400.
C24_GenericFailure ==
    /\ resp.target = "storage_error" =>
          /\ resp.status = 500
          /\ resp.detail \in ({GenericText(op) : op \in Wrapped} \cup {"Internal Server Error"})
          /\ resp.detail # resp.asked
    /\ resp.target \in {"absent", "foreign"} => resp.status = 404
    /\ (resp.op = "register" /\ resp.target = "taken" /\ resp.status >= 400) =>
          resp.status = 400

(***************************************************************************)
(* Concurrent writes to one patient.                                       *)
(***************************************************************************)
\* C25: no step lowers the updated_at of a stored patient, however update
\* and add-note calls on it interleave, each having read the clock before
\* its write reaches the store.
C25_UpdatedAtMonotone ==
    [][\A p \in patients, q \in patients' :
          q.id = p.id => q.updated_at >= p.updated_at
      ]_vars

\* C26: in the notes of every stored patient a note that was appended
\* earlier has no larger timestamp than a note appended later, however the
\* add-note calls interleave, each having stamped its note before its
\* append reaches the store.  (The claim asks for strictly smaller; two
\* notes stamped within one tick of the model's clock are let through.)
C26_NotesInTimestampOrder ==
    \A p \in patients :
        \A i, j \in 1..Len(p.notes) :
            i < j => p.notes[i].timestamp <= p.notes[j].timestamp

\* the fields a payload supplies have the supplied values in p
HasSupplied(p, payload) ==
    /\ payload.name # None => p.name = The(payload.name)
    /\ payload.phone # None => p.phone = The(payload.phone)
    /\ payload.email # None => p.email = The(payload.email)
    /\ payload.group # None => p.group = The(payload.group)
    /\ payload.is_favorite # None => p.is_favorite = The(payload.is_favorite)

\* C27: an update call whose write matched a patient of the caller is
\* answered, after its second query, with success and a record in which
\* every field of its payload has the supplied value, whatever updates and
\* deletes of the same patient ran in between.
C27_UpdateReturnsOwnWrite ==
    [][\A c \in CallIds :
          (calls[c].pc = "reread" /\ calls'[c].pc = "idle") =>
              /\ resp'.op = "update_patient"
              /\ resp'.status = 200
              /\ \E p \in resp'.patient : HasSupplied(p, The(calls[c].data))
      ]_vars

(***************************************************************************)
(* Token kinds.                                                            *)
(***************************************************************************)
\* C28: token kinds are not interchangeable: the refresh operation answers
\* 401 to a token that create_access_token built, and a protected operation
\* answers 401 to a token that create_refresh_token built.
C28_TokenKindsApart ==
    /\ (resp.op = "refresh" /\ \E token \in resp.presented : token.use = "access")
           => resp.status = 401
    /\ (resp.op \in {"me", "upgrade_subscription", "pro_feature"}
           /\ \E cred \in resp.presented : cred.use = "refresh")
           => resp.status = 401

(***************************************************************************)
(* Document records.                                                       *)
(***************************************************************************)
\* C30: every document record that create-document stores references a
\* patient that exists at that time and is owned by the record's user.
C30_DocumentOfOwnPatient ==
    [][\A i \in (DOMAIN documents') \ (DOMAIN documents) :
           \E p \in patients :
               p.id = documents'[i].patient_id /\ p.user_id = documents'[i].user_id
      ]_vars

====
